---- MODULE Spec2Model ----
(***************************************************************************)
(* EVA Foundation: the MCP knowledge server (hello_mcp.py) and the         *)
(* knowledge-base ingestion client (scripts/ingest_knowledge_base.py).     *)
(*                                                                         *)
(* Python str values are TLA+ strings; a dict is a record; a list is a     *)
(* sequence.  Floats that the code builds as 0.9 - i*0.1 are kept in       *)
(* tenths, 0.85 in hundredths.                                             *)
(***************************************************************************)
EXTENDS Integers, Sequences, FiniteSets, TLC

VARIABLES phase, request, result, response, handlers,
          ipc, args, localFile, storage, calls, trigger, ingestResult, exitCode, runs,
          caught, prior

serverVars == <<phase, request, result, response, handlers>>
ingestVars == <<ipc, args, localFile, storage, calls, trigger, ingestResult, exitCode, runs,
               caught, prior>>
vars == <<phase, request, result, response, handlers,
          ipc, args, localFile, storage, calls, trigger, ingestResult, exitCode, runs,
          caught, prior>>

(***************************************************************************)
(* Bounds of the model                                                     *)
(***************************************************************************)
MaxTextLen == 102
MaxResultsTop == 5
MaxResultsNeg == 2
MaxFileSize == 2
MaxRuns == 2

(***************************************************************************)
(* Program constants                                                       *)
(***************************************************************************)
StubCount == 3
PreviewLimit == 100
DefaultMaxResults == 5

Min(a, b) == IF a < b THEN a ELSE b

RECURSIVE Rep(_, _)
Rep(c, n) == IF n <= 0 THEN "" ELSE c \o Rep(c, n - 1)

Digit(d) == SubSeq("0123456789", d + 1, d + 1)

RECURSIVE NatStr(_)
NatStr(n) == IF n < 10 THEN Digit(n) ELSE NatStr(n \div 10) \o Digit(n % 10)

\* str(int) / f"{int}"
IntStr(n) == IF n < 0 THEN "-" \o NatStr(0 - n) ELSE NatStr(n)

\* str(bool)
PyBool(b) == IF b THEN "True" ELSE "False"

\* repr of a str without quote characters
PyQuote(s) == "'" \o s \o "'"

(***************************************************************************)
(* Schema registry: the descriptors built by list_resources / list_tools   *)
(***************************************************************************)
URI_ALL == "knowledge://jurisprudence/all"
URI_ABGR == "knowledge://jurisprudence/abgr"
URI_SEARCH == "knowledge://jurisprudence/search"

ResourceDescriptors ==
  << [uri |-> URI_ALL, name |-> "Complete Jurisprudence Database",
      mimeType |-> "application/xml"],
     [uri |-> URI_ABGR, name |-> "Agent-Related Content (ABGR)",
      mimeType |-> "application/json"],
     [uri |-> URI_SEARCH, name |-> "Semantic Search Interface",
      mimeType |-> "application/json"] >>

ToolDescriptors ==
  << [name |-> "search_jurisprudence",
      properties |-> {"query", "agent_focus", "max_results"},
      required |-> {"query"}],
     [name |-> "extract_citations",
      properties |-> {"text"},
      required |-> {"text"}],
     [name |-> "get_abgr_summary",
      properties |-> {"topic"},
      required |-> {}] >>

KnownUris == {ResourceDescriptors[i].uri : i \in 1..Len(ResourceDescriptors)}
KnownTools == {ToolDescriptors[i].name : i \in 1..Len(ToolDescriptors)}

\* required-set of the inputSchema list_tools advertises for a tool
RequiredArgs(name) ==
  IF name \in KnownTools
  THEN (CHOOSE d \in {ToolDescriptors[i] : i \in 1..Len(ToolDescriptors)} :
          d.name = name).required
  ELSE {}

(***************************************************************************)
(* Inputs                                                                  *)
(***************************************************************************)
Uris == KnownUris \cup {"knowledge://jurisprudence/other", "knowledge://jurisprudence/ALL", ""}
ToolNames == KnownTools \cup {"unknown_tool", "Search_Jurisprudence", ""}
Queries == {"", "x", "agent regulations"}
Topics == {"all", "compliance"}
Texts == {Rep("a", n) \o tail : n \in 0..MaxTextLen, tail \in {"", "..."}}
MaxResultsValues == (0 - MaxResultsNeg)..MaxResultsTop
\* what a collaborator call does: "none" = the code of src/ runs to its end,
\* anything else = it raises Exception(<that message>)
Failures == {"none", "boom", "[Errno 5] Input/output error"}
\* the backing corpus file as the loader finds it
KbStates == [state : {"missing", "unreadable"}, size : {0}]
            \cup [state : {"ok"}, size : 0..MaxFileSize]

\* request.params.arguments: None (given = FALSE) or a dict with the keys `has`
Bag(has, q, f, m, t, p) ==
  [given |-> TRUE, has |-> has, query |-> q, agent_focus |-> f,
   max_results |-> m, text |-> t, topic |-> p]
NoArguments ==
  [given |-> FALSE, has |-> {}, query |-> "", agent_focus |-> FALSE,
   max_results |-> 0, text |-> "", topic |-> ""]
EmptyDict == [NoArguments EXCEPT !.given = TRUE]

\* a dict never carries a value under a key it does not have
Normal(a) ==
  [given |-> a.given, has |-> a.has,
   query |-> IF "query" \in a.has THEN a.query ELSE "",
   agent_focus |-> IF "agent_focus" \in a.has THEN a.agent_focus ELSE FALSE,
   max_results |-> IF "max_results" \in a.has THEN a.max_results ELSE 0,
   text |-> IF "text" \in a.has THEN a.text ELSE "",
   topic |-> IF "topic" \in a.has THEN a.topic ELSE ""]

RawBags ==
  {NoArguments, EmptyDict}
  \cup {Bag(qs \cup fs \cup ms, q, f, m, "", "") :
          q \in Queries, f \in BOOLEAN, m \in MaxResultsValues,
          qs \in {{}, {"query"}}, fs \in {{}, {"agent_focus"}},
          ms \in {{}, {"max_results"}}}
  \cup {Bag({"text"}, "", FALSE, 0, t, "") : t \in Texts}
  \cup {Bag({"topic"}, "", FALSE, 0, "", p) : p \in Topics}

ArgumentBags == {Normal(b) : b \in RawBags}

\* arguments.get(key, default)
Get(a, key, default) == IF key \in a.has THEN a[key] ELSE default

\* request.params.arguments or {}
OrEmpty(a) == IF a.given /\ a.has # {} THEN a ELSE EmptyDict

(***************************************************************************)
(* Collaborators                                                           *)
(***************************************************************************)
KnowledgeBasePath == "../eva-da-2/public/knowledge_articles_r2r3_en 2.xml"

Returned(v) == [ok |-> TRUE, val |-> v, err |-> ""]
Raised(msg) == [ok |-> FALSE, val |-> "", err |-> msg]

\* a call of a collaborator: it raises when the collaborator fails
Await(fail, v) == IF fail = "none" THEN Returned(v) ELSE Raised(fail)

read_full_knowledge_base(kb) ==
  CASE kb.state = "ok" ->
         "Knowledge base loaded: " \o IntStr(kb.size) \o " characters"
    [] kb.state = "missing" ->
         "Knowledge base not found at: " \o KnowledgeBasePath
    [] OTHER ->
         "Error reading knowledge base: " \o "[Errno 13] Permission denied"

extract_abgr_content == "{ \"abgr_content\": { ... } }"

get_search_interface == "{ \"search_capabilities\": { ... } }"

\* Doc with the flag fixed instead of taken from the request
DocNeverAbgr(i, query, agent_focus) ==
  [title |-> "Legal Document " \o IntStr(i + 1),
   content |-> "Content related to: " \o query,
   relevance_score |-> 9 - i,
   source |-> "AssistMe Knowledge Base",
   abgr_related |-> FALSE]

Doc(i, query, agent_focus) ==
  [title |-> "Legal Document " \o IntStr(i + 1),
   content |-> "Content related to: " \o query,
   relevance_score |-> 9 - i,
   source |-> "AssistMe Knowledge Base",
   abgr_related |-> agent_focus]

\* search_jurisprudence without the cap of the stub on the result list
search_jurisprudence_uncapped(query, agent_focus, max_results) ==
  [query |-> query,
   agent_focus |-> agent_focus,
   results |-> [k \in 1..max_results |-> Doc(k - 1, query, agent_focus)],
   total_found |-> Min(max_results, StubCount)]

search_jurisprudence(query, agent_focus, max_results) ==
  [query |-> query,
   agent_focus |-> agent_focus,
   results |-> [k \in 1..Min(max_results, StubCount) |-> Doc(k - 1, query, agent_focus)],
   total_found |-> Min(max_results, StubCount)]

\* extract_citations truncating from length 100 on
extract_citations_off_by_one(text) ==
  [text_analyzed |-> IF Len(text) >= PreviewLimit
                     THEN SubSeq(text, 1, PreviewLimit) \o "..."
                     ELSE text,
   citations_found |-> << [type |-> "statute", reference |-> "Example Act, s. 123"],
                          [type |-> "regulation", reference |-> "Example Regulation 456/2024"] >>,
   extraction_confidence |-> 85]

extract_citations(text) ==
  [text_analyzed |-> IF Len(text) > PreviewLimit
                     THEN SubSeq(text, 1, PreviewLimit) \o "..."
                     ELSE text,
   citations_found |-> << [type |-> "statute", reference |-> "Example Act, s. 123"],
                          [type |-> "regulation", reference |-> "Example Regulation 456/2024"] >>,
   extraction_confidence |-> 85]

get_abgr_summary(topic) ==
  [topic |-> topic,
   total_regulations |-> 15,
   recent_updates |-> "November 2024",
   compliance_level |-> "Protected B",
   knowledge_source |-> "AssistMe Jurisprudence Database"]

(***************************************************************************)
(* str(result): the Python rendering of the handlers' dicts                *)
(***************************************************************************)
ScoreStr(tenths) == "0." \o IntStr(tenths)

DocStr(d) ==
  "{'title': " \o PyQuote(d.title) \o ", 'content': " \o PyQuote(d.content)
  \o ", 'relevance_score': " \o ScoreStr(d.relevance_score)
  \o ", 'source': " \o PyQuote(d.source)
  \o ", 'abgr_related': " \o PyBool(d.abgr_related) \o "}"

RECURSIVE JoinDocs(_)
JoinDocs(ds) ==
  IF Len(ds) = 0 THEN ""
  ELSE IF Len(ds) = 1 THEN DocStr(ds[1])
  ELSE DocStr(ds[1]) \o ", " \o JoinDocs(Tail(ds))

SearchStr(r) ==
  "{'query': " \o PyQuote(r.query) \o ", 'agent_focus': " \o PyBool(r.agent_focus)
  \o ", 'results': [" \o JoinDocs(r.results) \o "], 'total_found': "
  \o IntStr(r.total_found) \o "}"

CitationsStr(r) ==
  "{'text_analyzed': " \o PyQuote(r.text_analyzed)
  \o ", 'citations_found': [{'type': 'statute', 'reference': 'Example Act, s. 123'}, "
  \o "{'type': 'regulation', 'reference': 'Example Regulation 456/2024'}], "
  \o "'extraction_confidence': 0." \o IntStr(r.extraction_confidence) \o "}"

SummaryStr(r) ==
  "{'topic': " \o PyQuote(r.topic) \o ", 'abgr_summary': {'total_regulations': "
  \o IntStr(r.total_regulations) \o ", ...}, 'knowledge_source': "
  \o PyQuote(r.knowledge_source) \o "}"

PyStr(name, r) ==
  CASE name = "search_jurisprudence" -> SearchStr(r)
    [] name = "extract_citations" -> CitationsStr(r)
    [] name = "get_abgr_summary" -> SummaryStr(r)
    [] OTHER -> r

(***************************************************************************)
(* Protocol handlers                                                       *)
(***************************************************************************)
TextContent(text) == [type |-> "text", text |-> text]

\* the value a handler hands to the transport, or the exception that escapes it
Envelope(blocks) == [raised |-> FALSE, contents |-> blocks]
Propagated == [raised |-> TRUE, contents |-> << >>]

\* ReadContent with the unknown URI treated as a failure
ReadContentUnknownRaises(uri, kb, fail) ==
  CASE uri = URI_ALL -> Await(fail, read_full_knowledge_base(kb))
    [] uri = URI_ABGR -> Await(fail, extract_abgr_content)
    [] uri = URI_SEARCH -> Await(fail, get_search_interface)
    [] OTHER -> Raised("Unknown resource")

\* the body of the try block of read_resource
ReadContent(uri, kb, fail) ==
  CASE uri = URI_ALL -> Await(fail, read_full_knowledge_base(kb))
    [] uri = URI_ABGR -> Await(fail, extract_abgr_content)
    [] uri = URI_SEARCH -> Await(fail, get_search_interface)
    [] OTHER -> Returned("Unknown resource: " \o uri)

read_resource_noexcept(uri, kb, fail) ==
  LET out == ReadContent(uri, kb, fail)
  IN  IF out.ok THEN Envelope(<< TextContent(out.val) >>) ELSE Propagated

read_resource(uri, kb, fail) ==
  LET out == ReadContent(uri, kb, fail)
  IN  IF out.ok
      THEN Envelope(<< TextContent(out.val) >>)
      ELSE Envelope(<< TextContent("Error: " \o out.err) >>)

\* ToolResult with the unknown tool treated as a failure
ToolResultUnknownRaises(name, arguments, fail) ==
  LET a == OrEmpty(arguments)
  IN  CASE name = "search_jurisprudence" ->
             Await(fail, search_jurisprudence(Get(a, "query", ""),
                                              Get(a, "agent_focus", FALSE),
                                              Get(a, "max_results", DefaultMaxResults)))
        [] name = "extract_citations" ->
             Await(fail, extract_citations(Get(a, "text", "")))
        [] name = "get_abgr_summary" ->
             Await(fail, get_abgr_summary(Get(a, "topic", "all")))
        [] OTHER -> Raised("Unknown tool")

\* the body of the try block of call_tool, up to the binding of `result`
ToolResult(name, arguments, fail) ==
  LET a == OrEmpty(arguments)
  IN  CASE name = "search_jurisprudence" ->
             Await(fail, search_jurisprudence(Get(a, "query", ""),
                                              Get(a, "agent_focus", FALSE),
                                              Get(a, "max_results", DefaultMaxResults)))
        [] name = "extract_citations" ->
             Await(fail, extract_citations(Get(a, "text", "")))
        [] name = "get_abgr_summary" ->
             Await(fail, get_abgr_summary(Get(a, "topic", "all")))
        [] OTHER -> Returned("Unknown tool: " \o name)

\* call_tool whose except clause returns an envelope without a block
call_tool_empty_on_error(name, arguments, fail) ==
  LET out == ToolResult(name, arguments, fail)
  IN  IF out.ok
      THEN Envelope(<< TextContent(PyStr(name, out.val)) >>)
      ELSE Envelope(<< >>)

call_tool(name, arguments, fail) ==
  LET out == ToolResult(name, arguments, fail)
  IN  IF out.ok
      THEN Envelope(<< TextContent(PyStr(name, out.val)) >>)
      ELSE Envelope(<< TextContent("Tool error: " \o out.err) >>)

\* ListResourcesResult(resources=...) / ListToolsResult(tools=...)
Listing(descriptors) == [raised |-> FALSE, contents |-> descriptors]

\* the protocol operations setup_handlers binds on self.server
setup_handlers == {"list_resources", "read_resource", "list_tools", "call_tool"}

list_resources == ResourceDescriptors

\* list_tools with one descriptor listed twice in place of another
list_tools_duplicated ==
  << ToolDescriptors[1], ToolDescriptors[2], ToolDescriptors[2] >>

list_tools == ToolDescriptors

(***************************************************************************)
(* The server as a state machine: the transport hands one request at a     *)
(* time to its handler and sends the handler's value back.                 *)
(***************************************************************************)
NoRequest == [op |-> "none", uri |-> "", name |-> "", arguments |-> NoArguments,
              kb |-> [state |-> "missing", size |-> 0], fail |-> "none"]
NoResult == Raised("")
NoResponse == Envelope(<< >>)

ListResources ==
  /\ phase = "idle"
  /\ "list_resources" \in handlers
  /\ phase' = "responded"
  /\ request' = [NoRequest EXCEPT !.op = "list_resources"]
  /\ result' = Returned(list_resources)
  /\ response' = Listing(list_resources)
  /\ UNCHANGED handlers
  /\ UNCHANGED ingestVars

ReadResource ==
  /\ phase = "idle"
  /\ "read_resource" \in handlers
  /\ \E uri \in Uris, kb \in KbStates, fail \in Failures :
       /\ request' = [NoRequest EXCEPT !.op = "read_resource", !.uri = uri,
                                       !.kb = kb, !.fail = fail]
       /\ result' = ReadContent(uri, kb, fail)
       /\ response' = read_resource(uri, kb, fail)
  /\ phase' = "responded"
  /\ UNCHANGED handlers
  /\ UNCHANGED ingestVars

ListTools ==
  /\ phase = "idle"
  /\ "list_tools" \in handlers
  /\ phase' = "responded"
  /\ request' = [NoRequest EXCEPT !.op = "list_tools"]
  /\ result' = Returned(list_tools)
  /\ response' = Listing(list_tools)
  /\ UNCHANGED handlers
  /\ UNCHANGED ingestVars

CallTool ==
  /\ phase = "idle"
  /\ "call_tool" \in handlers
  /\ \E name \in ToolNames, arguments \in ArgumentBags, fail \in Failures :
       /\ request' = [NoRequest EXCEPT !.op = "call_tool", !.name = name,
                                       !.arguments = arguments, !.fail = fail]
       /\ result' = ToolResult(name, arguments, fail)
       /\ response' = call_tool(name, arguments, fail)
  /\ phase' = "responded"
  /\ UNCHANGED handlers
  /\ UNCHANGED ingestVars

\* session.run(): the response goes out and the next request is awaited
Send ==
  /\ phase = "responded"
  /\ phase' = "idle"
  /\ request' = NoRequest
  /\ result' = NoResult
  /\ response' = NoResponse
  /\ UNCHANGED handlers
  /\ UNCHANGED ingestVars

ServerNext == ListResources \/ ReadResource \/ ListTools \/ CallTool \/ Send

(***************************************************************************)
(* Ingestion client                                                        *)
(***************************************************************************)
RECURSIVE BaseName(_)
\* Path(xml_file_path).name
BaseName(path) ==
  LET RECURSIVE LastSlash(_)
      LastSlash(i) == IF i = 0 THEN 0
                      ELSE IF SubSeq(path, i, i) = "/" THEN i
                      ELSE LastSlash(i - 1)
  IN  SubSeq(path, LastSlash(Len(path)) + 1, Len(path))

XmlFiles == {"./data/kb.xml", "kb2.xml"}
BlobNameArgs == {"", "custom.xml"}
BlobNames == {BaseName(f) : f \in XmlFiles} \cup (BlobNameArgs \ {""})

\* blob_name = Path(xml_file_path).name when --blob-name is not given
BlobNameOf(a) == IF a.blob_name = "" THEN BaseName(a.xml_file) ELSE a.blob_name

\* what the POST of trigger_ingestion meets
TriggerOutcomes == {"ok_success", "ok_failure", "timeout", "http_error",
                    "connection_error", "bad_json"}

\* the JSON body of a 2xx answer of the remote function
RemoteBody(outcome, blob_name) ==
  IF outcome = "ok_success"
  THEN [success |-> TRUE, message |-> "Ingested " \o blob_name]
  ELSE [success |-> FALSE, error |-> "No articles found in " \o blob_name]

NoDict == [none |-> TRUE]

\* trigger_ingestion letting the timeout through as an exception
trigger_ingestion_raising(blob_name, outcome) ==
  CASE outcome \in {"ok_success", "ok_failure"} ->
         [raised |-> FALSE, result |-> RemoteBody(outcome, blob_name)]
    [] OTHER ->
         [raised |-> TRUE, result |-> NoDict]

\* trigger_ingestion returning a result for an HTTP error response too
trigger_ingestion_swallowing(blob_name, outcome) ==
  CASE outcome \in {"ok_success", "ok_failure"} ->
         [raised |-> FALSE, result |-> RemoteBody(outcome, blob_name)]
    [] outcome = "timeout" ->
         [raised |-> FALSE,
          result |-> [error |-> "timeout",
                      message |-> "Check Azure portal for function execution logs"]]
    [] outcome = "http_error" ->
         [raised |-> FALSE, result |-> [error |-> "http_error", message |-> ""]]
    [] OTHER ->
         [raised |-> TRUE, result |-> NoDict]

\* trigger_ingestion: the dict it returns, or the exception it lets through
trigger_ingestion(blob_name, outcome) ==
  CASE outcome \in {"ok_success", "ok_failure"} ->
         [raised |-> FALSE, result |-> RemoteBody(outcome, blob_name)]
    [] outcome = "timeout" ->
         [raised |-> FALSE,
          result |-> [error |-> "timeout",
                      message |-> "Check Azure portal for function execution logs"]]
    [] OTHER ->
         [raised |-> TRUE, result |-> NoDict]

\* the exception requests raises for what the POST met
ExceptionOf(outcome) ==
  CASE outcome = "timeout" -> "Timeout"
    [] outcome = "http_error" -> "HTTPError"
    [] outcome = "connection_error" -> "ConnectionError"
    [] OTHER -> "JSONDecodeError"

\* result.get('success') taken as a condition
GetSuccess(d) == "success" \in DOMAIN d /\ d.success

\* main after trigger_ingestion: the summary and sys.exit, or the except clause;
\* AfterTriggerRetry posts again after a timeout
AfterTriggerRetry(out) ==
  IF out.raised THEN "exited"
  ELSE IF "error" \in DOMAIN out.result /\ out.result.error = "timeout" THEN "trigger"
  ELSE "report"

AfterTrigger(out) == IF out.raised THEN "exited" ELSE "report"

NoArgs == [xml_file |-> "", blob_name |-> "", analyze_only |-> FALSE,
           upload_only |-> FALSE, abgr_only |-> FALSE]

Init ==
  /\ phase = "idle"
  /\ request = NoRequest
  /\ result = NoResult
  /\ response = NoResponse
  /\ handlers = setup_handlers
  /\ ipc = "idle"
  /\ args = NoArgs
  /\ localFile = [exists |-> FALSE, content |-> 0]
  /\ storage \in [container : BOOLEAN, blobs : {[b \in BlobNames |-> 0]}]
  /\ calls = << >>
  /\ trigger = "none"
  /\ ingestResult = NoDict
  /\ exitCode = -1
  /\ runs = 0
  /\ caught = ""
  /\ prior = storage

Call(op, ok) == [op |-> op, ok |-> ok]

\* the except clause of main, `except Exception as e`: traceback and sys.exit(1)
Fatal(e) ==
  /\ ipc' = "exited"
  /\ exitCode' = 1
  /\ caught' = e

\* the step goes on, nothing is raised
Proceed(pc) ==
  /\ ipc' = pc
  /\ exitCode' = exitCode
  /\ caught' = caught

\* the command line is parsed and main begins
StartRun ==
  /\ ipc \in {"idle", "exited"}
  /\ runs < MaxRuns
  /\ \E f \in XmlFiles, b \in BlobNameArgs, an \in BOOLEAN, up \in BOOLEAN,
        ab \in BOOLEAN, ex \in BOOLEAN, c \in 1..MaxFileSize :
       /\ args' = [xml_file |-> f, blob_name |-> b, analyze_only |-> an,
                   upload_only |-> up, abgr_only |-> ab]
       /\ localFile' = [exists |-> ex, content |-> IF ex THEN c ELSE 0]
       /\ ipc' = IF an THEN "analyze" ELSE "check_file"
  /\ calls' = << >>
  /\ trigger' = "none"
  /\ ingestResult' = NoDict
  /\ exitCode' = -1
  /\ runs' = runs + 1
  /\ caught' = ""
  /\ prior' = storage
  /\ UNCHANGED storage
  /\ UNCHANGED serverVars

\* --analyze-only: analyze_xml_structure runs outside the try of main, so what
\* it raises ends the process with code 1
Analyze ==
  /\ ipc = "analyze"
  /\ ipc' = "exited"
  /\ \E ok \in (IF localFile.exists THEN BOOLEAN ELSE {FALSE}) :
       exitCode' = IF ok THEN 0 ELSE 1
  /\ UNCHANGED <<args, localFile, storage, calls, trigger, ingestResult, runs, caught, prior>>
  /\ UNCHANGED serverVars

\* upload_to_blob_storage without the check of the local file
CheckFileSkipped ==
  /\ ipc = "check_file"
  /\ Proceed("connect")
  /\ UNCHANGED <<args, localFile, storage, calls, trigger, ingestResult, runs, prior>>
  /\ UNCHANGED serverVars

\* upload_to_blob_storage: os.path.exists
CheckFile ==
  /\ ipc = "check_file"
  /\ IF localFile.exists
     THEN Proceed("connect")
     ELSE Fatal("FileNotFoundError")
  /\ UNCHANGED <<args, localFile, storage, calls, trigger, ingestResult, runs, prior>>
  /\ UNCHANGED serverVars

\* upload_to_blob_storage: DefaultAzureCredential and BlobServiceClient
Connect ==
  /\ ipc = "connect"
  /\ \E ok \in BOOLEAN :
       /\ calls' = Append(calls, Call("connect", ok))
       /\ IF ok THEN Proceed("container_exists")
                ELSE Fatal("ClientAuthenticationError")
  /\ UNCHANGED <<args, localFile, storage, trigger, ingestResult, runs, prior>>
  /\ UNCHANGED serverVars

\* upload_to_blob_storage: container_client.exists(), a failure is only warned about
ContainerExists ==
  /\ ipc = "container_exists"
  /\ \E ok \in BOOLEAN :
       /\ calls' = Append(calls, Call("container_exists", ok))
       /\ ipc' = IF ok /\ ~storage.container THEN "create_container" ELSE "upload_blob"
  /\ UNCHANGED <<args, localFile, storage, trigger, ingestResult, exitCode, runs, caught, prior>>
  /\ UNCHANGED serverVars

\* upload_to_blob_storage: container_client.create_container(), a failure is only warned about
CreateContainer ==
  /\ ipc = "create_container"
  /\ \E ok \in BOOLEAN :
       /\ calls' = Append(calls, Call("create_container", ok))
       /\ storage' = IF ok THEN [storage EXCEPT !.container = TRUE] ELSE storage
  /\ ipc' = "upload_blob"
  /\ UNCHANGED <<args, localFile, trigger, ingestResult, exitCode, runs, caught, prior>>
  /\ UNCHANGED serverVars

\* BlobClient.upload_blob: the service met (available or not), the container
\* and the blob of that name decide what the call does
upload_blob(st, name, content, overwrite, available) ==
  CASE ~available ->
         [ok |-> FALSE, err |-> "ServiceRequestError", storage |-> st]
    [] ~st.container ->
         [ok |-> FALSE, err |-> "ResourceNotFoundError", storage |-> st]
    [] ~overwrite /\ st.blobs[name] # 0 ->
         [ok |-> FALSE, err |-> "ResourceExistsError", storage |-> st]
    [] OTHER ->
         [ok |-> TRUE, err |-> "", storage |-> [st EXCEPT !.blobs[name] = content]]

\* the upload without overwrite=True
UploadNoOverwrite(st, name, content, available) ==
  upload_blob(st, name, content, FALSE, available)

\* blob_client.upload_blob(data, overwrite=True)
UploadOverwrite(st, name, content, available) ==
  upload_blob(st, name, content, TRUE, available)

\* upload_to_blob_storage: open the file and upload it under blob_name
UploadBlob ==
  /\ ipc = "upload_blob"
  /\ \E available \in BOOLEAN :
       LET up == UploadOverwrite(storage, BlobNameOf(args), localFile.content, available)
       IN  /\ calls' = Append(calls, Call("upload_blob", up.ok))
           /\ storage' = up.storage
           /\ IF up.ok THEN Proceed("uploaded") ELSE Fatal(up.err)
  /\ UNCHANGED <<args, localFile, trigger, ingestResult, runs, prior>>
  /\ UNCHANGED serverVars

\* main: --upload-only returns, otherwise the trigger follows
AfterUpload ==
  /\ ipc = "uploaded"
  /\ IF args.upload_only
     THEN ipc' = "exited" /\ exitCode' = 0
     ELSE ipc' = "trigger" /\ exitCode' = exitCode
  /\ UNCHANGED <<args, localFile, storage, calls, trigger, ingestResult, runs, caught, prior>>
  /\ UNCHANGED serverVars

\* main: trigger_ingestion(...), with requests.post inside it
TriggerPost ==
  /\ ipc = "trigger"
  /\ \E outcome \in TriggerOutcomes :
       LET out == trigger_ingestion(BlobNameOf(args), outcome)
       IN  /\ calls' = Append(calls, Call("post", outcome \in {"ok_success", "ok_failure"}))
           /\ trigger' = outcome
           /\ ingestResult' = out.result
           /\ ipc' = AfterTrigger(out)
           /\ exitCode' = IF out.raised THEN 1 ELSE exitCode
           /\ caught' = IF out.raised THEN ExceptionOf(outcome) ELSE caught
  /\ UNCHANGED <<args, localFile, storage, runs, prior>>
  /\ UNCHANGED serverVars

\* main: print_ingestion_summary(result); sys.exit(0 if result.get('success') else 1)
Report ==
  /\ ipc = "report"
  /\ ipc' = "exited"
  /\ exitCode' = IF GetSuccess(ingestResult) THEN 0 ELSE 1
  /\ UNCHANGED <<args, localFile, storage, calls, trigger, ingestResult, runs, caught, prior>>
  /\ UNCHANGED serverVars

IngestNext ==
  \/ StartRun \/ Analyze \/ CheckFile \/ Connect \/ ContainerExists
  \/ CreateContainer \/ UploadBlob \/ AfterUpload \/ TriggerPost \/ Report

IngestSpec == Init /\ [][IngestNext]_vars

Spec == Init /\ [][ServerNext]_vars

(***************************************************************************)
(* Properties                                                              *)
(***************************************************************************)
StartsWith(s, p) == Len(s) >= Len(p) /\ SubSeq(s, 1, Len(p)) = p

Responded(op) == phase = "responded" /\ request.op = op

\* the value the code reads for a key of the argument bag of the request
Requested(key, default) ==
  IF request.arguments.given /\ key \in request.arguments.has
  THEN request.arguments[key]
  ELSE default

OneTextBlock == /\ ~response.raised
                /\ Len(response.contents) = 1
                /\ response.contents[1].type = "text"

\* C1: for every resource URI other than the three known ones, read_resource
\* returns (raises nothing) an envelope of one text block that is no error
\* block and that names the URI verbatim.
C1_UnknownResourceNamed ==
  (Responded("read_resource")
     /\ request.uri \notin {"knowledge://jurisprudence/all",
                            "knowledge://jurisprudence/abgr",
                            "knowledge://jurisprudence/search"})
  => /\ OneTextBlock
     /\ ~StartsWith(response.contents[1].text, "Error: ")
     /\ response.contents[1].text = "Unknown resource: " \o request.uri

C1_Witness ==
  /\ Responded("read_resource")
  /\ request.uri = "knowledge://jurisprudence/ALL"
  /\ ~response.raised
  /\ response.contents = << [type |-> "text",
                             text |-> "Unknown resource: knowledge://jurisprudence/ALL"] >>

\* C2: for every tool name other than the three known ones and any argument
\* bag (none included), call_tool returns (raises nothing) an envelope of one
\* text block that is no error block and that names the tool verbatim.
C2_UnknownToolNamed ==
  (Responded("call_tool")
     /\ request.name \notin {"search_jurisprudence", "extract_citations",
                             "get_abgr_summary"})
  => /\ OneTextBlock
     /\ ~StartsWith(response.contents[1].text, "Tool error: ")
     /\ response.contents[1].text = "Unknown tool: " \o request.name

C2_Witness ==
  /\ Responded("call_tool")
  /\ request.name = "unknown_tool"
  /\ ~request.arguments.given
  /\ ~response.raised
  /\ response.contents = << [type |-> "text", text |-> "Unknown tool: unknown_tool"] >>

\* the required arguments of the advertised schema that the request lacks
MissingRequired == RequiredArgs(request.name) \ OrEmpty(request.arguments).has

\* C3: a call of search_jurisprudence without query, or of extract_citations
\* without text, is rejected as an error and the handler is never run on a
\* default put in the place of the missing argument.
C3_MissingRequiredRejected ==
  (Responded("call_tool")
     /\ request.name \in {"search_jurisprudence", "extract_citations"}
     /\ MissingRequired # {})
  => /\ ~result.ok
     /\ \/ response.raised
        \/ /\ Len(response.contents) = 1
           /\ StartsWith(response.contents[1].text, "Tool error: ")

\* the prefix of the error block of a handler
ErrorPrefix == IF request.op = "read_resource" THEN "Error: " ELSE "Tool error: "

\* C4: in read_resource and call_tool no request ends with an exception
\* handed to the transport, and whenever the collaborator fails the envelope
\* carries one text block describing the error.
C4_CollaboratorFailureEnveloped ==
  (phase = "responded" /\ request.op \in {"read_resource", "call_tool"})
  => /\ ~response.raised
     /\ ~result.ok =>
          /\ OneTextBlock
          /\ response.contents[1].text = ErrorPrefix \o request.fail
     /\ (result.ok /\ request.uri = URI_ALL /\ request.kb.state # "ok") =>
          /\ OneTextBlock
          /\ \/ StartsWith(response.contents[1].text, "Knowledge base not found at: ")
             \/ StartsWith(response.contents[1].text, "Error reading knowledge base: ")

C4_Witness ==
  /\ Responded("call_tool")
  /\ request.name = "extract_citations"
  /\ request.fail = "boom"
  /\ ~result.ok
  /\ response = [raised |-> FALSE,
                 contents |-> << [type |-> "text", text |-> "Tool error: boom"] >>]

\* the whole successful content of the request, as its handler renders it
FullContent ==
  IF request.op = "read_resource" THEN result.val ELSE PyStr(request.name, result.val)

\* C5: every envelope of read_resource and call_tool has at least one block
\* and is either the complete successful content or one error block.
C5_EnvelopeNeverPartial ==
  (phase = "responded" /\ request.op \in {"read_resource", "call_tool"}
     /\ ~response.raised)
  => /\ Len(response.contents) >= 1
     /\ IF result.ok
        THEN /\ response.contents = << TextContent(FullContent) >>
             /\ ~StartsWith(response.contents[1].text, ErrorPrefix)
        ELSE /\ Len(response.contents) = 1
             /\ StartsWith(response.contents[1].text, ErrorPrefix)

C5_Witness ==
  /\ Responded("call_tool")
  /\ request.name = "get_abgr_summary"
  /\ request.fail = "boom"
  /\ Len(response.contents) = 1
  /\ response.contents[1].text = "Tool error: boom"

SearchReturned ==
  Responded("call_tool") /\ request.name = "search_jurisprudence" /\ result.ok

ScoresRanked(rs) ==
  /\ \A i \in 1..Len(rs) : rs[i].relevance_score >= 0 /\ rs[i].relevance_score <= 10
  /\ \A i \in 1..Len(rs) : \A j \in 1..Len(rs) :
       i < j => rs[i].relevance_score > rs[j].relevance_score

\* C6 as claimed: for every query and every integer max_results the search
\* returns exactly min(max_results, 3) results, with scores in [0,1] that
\* strictly decrease by rank.
C6_CountIsMin ==
  SearchReturned
  => /\ Len(result.val.results) = Min(Requested("max_results", 5), 3)
     /\ ScoresRanked(result.val.results)

\* C6 amended: the search returns min(max_results, 3) results when
\* max_results >= 0 and no result when max_results < 0; the scores lie in
\* [0,1] and strictly decrease by rank.
C6_CountIsMinOrZero ==
  SearchReturned
  => /\ Len(result.val.results) =
          (IF Requested("max_results", 5) < 0 THEN 0
           ELSE Min(Requested("max_results", 5), 3))
     /\ ScoresRanked(result.val.results)

C6_Witness ==
  /\ SearchReturned
  /\ Requested("max_results", 5) = 5
  /\ Len(result.val.results) = 3
  /\ result.val.results[1].relevance_score = 9
  /\ result.val.results[3].relevance_score = 7

\* C7: the abgr_related flag of every result of a search equals the
\* agent_focus of the request, an absent agent_focus counting as false.
C7_AbgrFlagIsAgentFocus ==
  SearchReturned
  => \A i \in 1..Len(result.val.results) :
       result.val.results[i].abgr_related = Requested("agent_focus", FALSE)

C7_Witness ==
  /\ SearchReturned
  /\ "agent_focus" \in request.arguments.has
  /\ request.arguments.agent_focus
  /\ Len(result.val.results) = 3
  /\ result.val.results[3].abgr_related

\* C8: extract_citations echoes the first 100 characters followed by "..."
\* exactly when the text is longer than 100 characters, and the text itself
\* otherwise (length 100 and the empty text included).
C8_PreviewTruncation ==
  (Responded("call_tool") /\ request.name = "extract_citations" /\ result.ok)
  => LET text == Requested("text", "")
         echo == result.val.text_analyzed
     IN  /\ Len(text) > 100 =>
              /\ Len(echo) = 103
              /\ SubSeq(echo, 1, 100) = SubSeq(text, 1, 100)
              /\ SubSeq(echo, 101, 103) = "..."
         /\ Len(text) <= 100 => echo = text

C8_Witness ==
  /\ Responded("call_tool")
  /\ request.name = "extract_citations"
  /\ result.ok
  /\ Len(request.arguments.text) = 101
  /\ Len(result.val.text_analyzed) = 103
  /\ result.val.text_analyzed # request.arguments.text

\* C9 as claimed: when the POST times out, trigger_ingestion returns a result
\* whose success field is false and whose error field is "timeout".
C9_TimeoutSuccessFalse ==
  trigger = "timeout"
  => /\ "success" \in DOMAIN ingestResult
     /\ ingestResult.success = FALSE
     /\ "error" \in DOMAIN ingestResult
     /\ ingestResult.error = "timeout"

\* C9 amended: when the POST times out, trigger_ingestion returns (raises
\* nothing) a result whose error field is "timeout" and that has no success
\* field, so that result.get('success') is not true and the run exits with 1.
C9_TimeoutReported ==
  trigger = "timeout"
  => /\ ipc \in {"report", "exited"}
     /\ "error" \in DOMAIN ingestResult
     /\ ingestResult.error = "timeout"
     /\ "success" \notin DOMAIN ingestResult
     /\ ~GetSuccess(ingestResult)
     /\ ipc = "report" => exitCode = -1
     /\ ipc = "exited" => exitCode = 1

C9_Witness ==
  /\ trigger = "timeout"
  /\ ipc = "report"
  /\ ingestResult = [error |-> "timeout",
                     message |-> "Check Azure portal for function execution logs"]

CallsOf(op) == {i \in 1..Len(calls) : calls[i].op = op}

\* C10: the POST is sent only after the upload of the blob has succeeded,
\* upload and POST are each attempted at most once in a run, and after a
\* failed upload or a timed-out POST the run makes no collaborator call.
C10_UploadThenTriggerOnce ==
  /\ \A i \in CallsOf("post") :
       \E j \in CallsOf("upload_blob") : j < i /\ calls[j].ok
  /\ Cardinality(CallsOf("upload_blob")) <= 1
  /\ Cardinality(CallsOf("post")) <= 1
  /\ \A i \in CallsOf("upload_blob") \cup CallsOf("connect") :
       ~calls[i].ok => i = Len(calls) /\ ipc = "exited" /\ exitCode = 1
  /\ \A i \in CallsOf("post") :
       trigger = "timeout" => i = Len(calls) /\ ipc \in {"report", "exited"}

C10_Witness ==
  /\ ipc = "exited"
  /\ trigger = "timeout"
  /\ Len(calls) >= 3
  /\ calls[Len(calls) - 1] = [op |-> "upload_blob", ok |-> TRUE]
  /\ calls[Len(calls)] = [op |-> "post", ok |-> FALSE]

\* an ingestion run (not --analyze-only) whose local file does not exist
MissingFileRun == runs > 0 /\ ~args.analyze_only /\ ~localFile.exists

\* C11: when the local file does not exist the run fails with a
\* file-not-found error before any call of the Blob Storage collaborator and
\* before any POST; the storage is as it was when the run began.
C11_MissingFileFailsFast ==
  MissingFileRun
  => /\ ipc \in {"check_file", "exited"}
     /\ calls = << >>
     /\ trigger = "none"
     /\ storage = prior
     /\ ipc = "exited" => exitCode = 1 /\ caught = "FileNotFoundError"

C11_Witness ==
  /\ MissingFileRun
  /\ ipc = "exited"
  /\ exitCode = 1
  /\ caught = "FileNotFoundError"
  /\ calls = << >>

\* the HTTP error response ends the run: raised by trigger_ingestion, caught
\* by main, exit code 1
HttpErrorRaised ==
  trigger = "http_error"
  => /\ ipc = "exited"
     /\ exitCode = 1
     /\ caught = "HTTPError"
     /\ ingestResult = NoDict

\* C12 as claimed: an HTTP error response makes trigger_ingestion raise and
\* the run end with exit code 1, and no other step of the run raises.
C12_OnlyTriggerRaises ==
  /\ HttpErrorRaised
  /\ caught # "" => trigger # "none"

\* C12 amended: an HTTP error response makes trigger_ingestion raise and the
\* run end with exit code 1; the steps of a run that raise are the check of
\* the local file, the storage connection, the blob upload and the trigger,
\* and each of them ends the run with exit code 1.
C12_HttpErrorRaises ==
  /\ HttpErrorRaised
  /\ caught # "" =>
       /\ ipc = "exited"
       /\ exitCode = 1
       /\ \/ calls = << >> /\ caught = "FileNotFoundError"
          \/ /\ calls # << >>
             /\ calls[Len(calls)].op \in {"connect", "upload_blob", "post"}
             /\ ~calls[Len(calls)].ok

C12_Witness ==
  /\ trigger = "http_error"
  /\ ipc = "exited"
  /\ exitCode = 1
  /\ caught = "HTTPError"
  /\ calls[Len(calls)] = [op |-> "post", ok |-> FALSE]

NamesOf(ds) == [i \in 1..Len(ds) |-> ds[i].name]
UrisOf(ds) == [i \in 1..Len(ds) |-> ds[i].uri]
Distinct(seq) == Cardinality({seq[i] : i \in 1..Len(seq)}) = Len(seq)

\* C13: whatever requests came before, list_tools returns exactly the three
\* descriptors search_jurisprudence, extract_citations, get_abgr_summary and
\* list_resources the three resource descriptors, names and URIs pairwise
\* distinct, and the handler bindings are the four set at startup.
C13_RegistryFixed ==
  /\ handlers = {"list_resources", "read_resource", "list_tools", "call_tool"}
  /\ Responded("list_tools") =>
       /\ ~response.raised
       /\ NamesOf(response.contents) =
            << "search_jurisprudence", "extract_citations", "get_abgr_summary" >>
       /\ Distinct(NamesOf(response.contents))
  /\ Responded("list_resources") =>
       /\ ~response.raised
       /\ UrisOf(response.contents) =
            << "knowledge://jurisprudence/all", "knowledge://jurisprudence/abgr",
               "knowledge://jurisprudence/search" >>
       /\ Distinct(UrisOf(response.contents))

C13_Witness ==
  /\ Responded("list_tools")
  /\ Len(response.contents) = 3
  /\ response.contents[3].name = "get_abgr_summary"
  /\ response.contents[1].required = {"query"}

\* the blob name and the file of the run were uploaded before, unchanged
SameFileAgain ==
  /\ prior.container
  /\ localFile.exists
  /\ prior.blobs[BlobNameOf(args)] = localFile.content

\* C14: the upload step run again for the same blob name is idempotent: a
\* container that is already there never makes the step fail, neither does
\* the blob that is already there, nothing is deleted, and after the upload
\* of the same file the storage is what it was after the first upload.
C14_ReuploadIdempotent ==
  /\ caught # "ResourceExistsError"
  /\ prior.container => caught # "ResourceNotFoundError"
  /\ \A i \in CallsOf("container_exists") \cup CallsOf("create_container") :
       i = Len(calls) => ipc \in {"create_container", "upload_blob"}
  /\ \A i \in 1..Len(calls) :
       calls[i].op \in {"connect", "container_exists", "create_container",
                        "upload_blob", "post"}
  /\ (ipc = "uploaded") =>
       storage = [container |-> TRUE,
                  blobs |-> [prior.blobs EXCEPT ![BlobNameOf(args)] = localFile.content]]
  /\ (ipc = "uploaded" /\ SameFileAgain) => storage = prior

C14_Witness ==
  /\ runs = 2
  /\ ipc = "uploaded"
  /\ SameFileAgain
  /\ storage = prior
  /\ calls[Len(calls)] = [op |-> "upload_blob", ok |-> TRUE]

\* C15: for every query, agent_focus and integer max_results (zero and
\* negative ones included) total_found of the search result equals the number
\* of entries of its results list.
C15_TotalFoundIsCount ==
  SearchReturned => result.val.total_found = Len(result.val.results)

====
